---- MODULE Spec2Model ----
(***************************************************************************)
(* Model of the exchange-rate evaluator: main.rs reads an input file line  *)
(* by line; a price update line updates the vertex set and the adjacency   *)
(* table (model.rs Graph / GraphResult), an exchange rate request line     *)
(* recomputes best_rate / next over the current graph and prints the best  *)
(* rate and its path.                                                      *)
(*                                                                         *)
(* Rates (f64 in the source) are exact rationals <<n, d>> in lowest terms  *)
(* with d > 0.  A vertex is <<exchange, currency>>.  The three HashMap     *)
(* tables are functions whose domain is the set of <<from, to>> pairs that *)
(* have an entry (an outer row exists exactly when it holds an entry).     *)
(***************************************************************************)
EXTENDS Integers, Sequences, FiniteSets, TLC

VARIABLES
    feed,         \* the price update lines the input file is made of
    vertices,     \* Graph.vertices
    adj_matrix,   \* GraphResult.adj_matrix : <<from, to>> -> EdgeWeight
    best_rate,    \* GraphResult.best_rate  : <<from, to>> -> rate
    next,         \* GraphResult.next       : <<from, to>> -> vertex
    line,         \* the line the main loop read last
    input,        \* the InputType parse_input made of it
    report,       \* what the last exchange rate request printed
    status,       \* "running", or how the process ended
    fresh_report, \* what the same request prints when no earlier request ran
    quoted,       \* the price update lines handled so far
    n_quotes,     \* price updates handled so far
    n_requests    \* exchange rate requests handled so far

vars == <<feed, vertices, adj_matrix, best_rate, next, line, input, report, status,
          fresh_report, quoted, n_quotes, n_requests>>

-----------------------------------------------------------------------------
(* Bounds of the model *)

MaxQuotes == 3
MaxRequests == 2

-----------------------------------------------------------------------------
(* f64 arithmetic, on exact rationals *)

Abs(x) == IF x < 0 THEN -x ELSE x

RECURSIVE Gcd(_, _)
Gcd(a, b) == IF b = 0 THEN a ELSE Gcd(b, a % b)

\* the rational n/d in lowest terms, d > 0
Rat(n, d) ==
    LET g == Gcd(Abs(n), d)
    IN  <<n \div g, d \div g>>

Zero == <<0, 1>>
One == <<1, 1>>

\* a * b, cancelling across before multiplying
Mul(a, b) ==
    LET g1 == Gcd(Abs(a[1]), b[2])
        g2 == Gcd(Abs(b[1]), a[2])
    IN  IF a[1] = 0 \/ b[1] = 0 THEN Zero
        ELSE <<(a[1] \div g1) * (b[1] \div g2), (a[2] \div g2) * (b[2] \div g1)>>

\* a < b, by integer parts and then the reciprocals of the fractional parts
RECURSIVE Less(_, _)
Less(a, b) ==
    LET qa == a[1] \div a[2]
        qb == b[1] \div b[2]
        ra == a[1] - qa * a[2]
        rb == b[1] - qb * b[2]
    IN  IF qa # qb THEN qa < qb
        ELSE IF rb = 0 THEN FALSE
        ELSE IF ra = 0 THEN TRUE
        ELSE Less(<<b[2], rb>>, <<a[2], ra>>)

Leq(a, b) == ~Less(b, a)

-----------------------------------------------------------------------------
(* The input lines the streams are drawn from *)

E1USD == <<"EXCH1", "USD">>
E1JPY == <<"EXCH1", "JPY">>
E1EUR == <<"EXCH1", "EUR">>
E2USD == <<"EXCH2", "USD">>
E2JPY == <<"EXCH2", "JPY">>
E3CHF == <<"EXCH3", "CHF">>

Universe == {E1USD, E1JPY, E1EUR, E2USD, E2JPY, E3CHF}

\* the wall clock readings of Utc::now()
Clock == {1, 3}

QuoteLine(t, ex, src, dst, fwd, bwd) ==
    [tokens |-> 6, datetime |-> t, exchange |-> ex, source_currency |-> src,
     dest_currency |-> dst, forward_ratio |-> fwd, backward_ratio |-> bwd]

RequestLine(v, w) ==
    [tokens |-> 5, source_exchange |-> v[1], source_currency |-> v[2],
     dest_exchange |-> w[1], dest_currency |-> w[2]]

\* two exchanges quoting the same pair of currencies
CrossExchangeLines ==
    { QuoteLine(1, "EXCH1", "USD", "JPY", Rat(100, 1), Rat(19, 2000)),
      QuoteLine(1, "EXCH1", "USD", "JPY", Rat(1, 2), Rat(2, 1)),
      QuoteLine(2, "EXCH1", "USD", "JPY", Rat(1, 2), Rat(2, 1)),
      QuoteLine(1, "EXCH2", "USD", "JPY", Rat(105, 1), Rat(19, 2000)),
      \* a line parse_input rejects
      QuoteLine(2, "EXCH1", "USD", "JPY", Rat(2, 1), Rat(2, 1)) }

\* one exchange quoting three currencies
TriangleLines ==
    { QuoteLine(1, "EXCH1", "USD", "JPY", Rat(100, 1), Rat(19, 2000)),
      QuoteLine(1, "EXCH1", "JPY", "EUR", Rat(1, 2), Rat(2, 1)),
      QuoteLine(1, "EXCH1", "USD", "EUR", Rat(2, 1), Rat(1, 2)),
      QuoteLine(2, "EXCH1", "USD", "EUR", Rat(100, 1), Rat(19, 2000)),
      QuoteLine(1, "EXCH1", "JPY", "EUR", Rat(-1, 1), Rat(-1, 1)),
      QuoteLine(1, "EXCH1", "USD", "USD", Rat(1, 2), Rat(1, 4)),
      \* a line parse_input rejects
      QuoteLine(2, "EXCH1", "JPY", "EUR", Rat(-1, 1), Rat(2, 1)) }

\* one exchange quoting one pair of currencies from both sides
SingleExchangeLines ==
    { QuoteLine(1, "EXCH1", "USD", "JPY", Rat(100, 1), Rat(19, 2000)),
      QuoteLine(1, "EXCH1", "JPY", "USD", Rat(19, 2000), Rat(100, 1)) }

\* the sets of price update lines an input file is made of
Feeds == {CrossExchangeLines, TriangleLines, SingleExchangeLines}

RequestLines ==
    { RequestLine(E1USD, E1JPY), RequestLine(E1USD, E1EUR),
      RequestLine(E1USD, E2JPY), RequestLine(E1USD, E3CHF) }

-----------------------------------------------------------------------------
(* main.rs *)

\* the ratio check of parse_input
RatioAcceptedNoUpper(fwd, bwd) == ~Leq(Mul(fwd, bwd), Zero)

RatioAccepted(fwd, bwd) ==
    LET both_ratio == Mul(fwd, bwd)
    IN  ~(Leq(both_ratio, Zero) \/ Less(One, both_ratio))

\* parse_input on a tokenized line whose date and numbers parse: the InputType
ParseInput(l) ==
    IF l.tokens = 6
    THEN IF RatioAccepted(l.forward_ratio, l.backward_ratio)
         THEN [kind |-> "PriceUpdate", price_update |-> l]
         ELSE [kind |-> "Invalid", message |-> "Resultant ratios is invalid"]
    ELSE IF l.tokens = 5
    THEN [kind |-> "ExchangeRateRequest", exchange_rate_request |-> l]
    ELSE [kind |-> "Invalid",
          message |-> "Input is neither a price update nor exchange rate request"]

-----------------------------------------------------------------------------
(* model.rs : Graph and the adjacency table *)

EmptyTable == [p \in {} |-> Zero]

EdgeWeight(weight, last_updated) ==
    [weight |-> weight, last_updated |-> last_updated]

\* a table with the entry of pair p set to x
Put(table, p, x) ==
    [q \in DOMAIN table \cup {p} |-> IF q = p THEN x ELSE table[q]]

\* add_vertex taking two vertices of one exchange to be equal
AddVertexByExchange(vs, vertex) ==
    IF \E u \in vs : u[1] = vertex[1] THEN vs ELSE vs \cup {vertex}

AddVertex(vs, vertex) == IF vertex \in vs THEN vs ELSE vs \cup {vertex}

\* add_edge_weight storing every quote, whatever its timestamp
AddEdgeWeightAlways(adj, from_vertex, to_vertex, weight, datetime) ==
    Put(adj, <<from_vertex, to_vertex>>, EdgeWeight(weight, datetime))

AddEdgeWeightNotOlder(adj, from_vertex, to_vertex, weight, datetime) ==
    LET p == <<from_vertex, to_vertex>>
    IN  IF p \in DOMAIN adj
        THEN IF datetime >= adj[p].last_updated
             THEN Put(adj, p, EdgeWeight(weight, datetime))
             ELSE adj
        ELSE Put(adj, p, EdgeWeight(weight, datetime))

AddEdgeWeight(adj, from_vertex, to_vertex, weight, datetime) ==
    LET p == <<from_vertex, to_vertex>>
    IN  IF p \in DOMAIN adj
        THEN IF datetime > adj[p].last_updated
             THEN Put(adj, p, EdgeWeight(weight, datetime))
             ELSE adj
        ELSE Put(adj, p, EdgeWeight(weight, datetime))

\* whether the outer map of a table has a row for v
HasRow(table, v) == \E p \in DOMAIN table : p[1] = v

\* add_edge_weight_for_currency linking vertex_inserted outwards only
AddEdgeWeightForCurrencyOutward(adj, vertex_inserted, vs, now) ==
    LET vertices_for_currency ==
            {v \in vs : v[2] = vertex_inserted[2] /\ v # vertex_inserted}
        out == IF HasRow(adj, vertex_inserted)
               THEN {<<vertex_inserted, v>> : v \in vertices_for_currency}
               ELSE {}
    IN  [p \in DOMAIN adj \cup out |->
            IF p \in DOMAIN adj THEN adj[p] ELSE EdgeWeight(One, now)]

\* add_edge_weight_for_currency linking to the vertices of every currency
AddEdgeWeightForCurrencyUnfiltered(adj, vertex_inserted, vs, now) ==
    LET vertices_for_currency == {v \in vs : v # vertex_inserted}
        out == IF HasRow(adj, vertex_inserted)
               THEN {<<vertex_inserted, v>> : v \in vertices_for_currency}
               ELSE {}
        in == {<<v, vertex_inserted>> :
                  v \in {u \in vertices_for_currency : HasRow(adj, u)}}
    IN  [p \in DOMAIN adj \cup out \cup in |->
            IF p \in DOMAIN adj THEN adj[p] ELSE EdgeWeight(One, now)]

\* add_edge_weight_for_currency writing its links with insert
AddEdgeWeightForCurrencyOverwriting(adj, vertex_inserted, vs, now) ==
    LET vertices_for_currency ==
            {v \in vs : v[2] = vertex_inserted[2] /\ v # vertex_inserted}
        out == IF HasRow(adj, vertex_inserted)
               THEN {<<vertex_inserted, v>> : v \in vertices_for_currency}
               ELSE {}
        in == {<<v, vertex_inserted>> :
                  v \in {u \in vertices_for_currency : HasRow(adj, u)}}
    IN  [p \in DOMAIN adj \cup out \cup in |->
            IF p \in out \cup in THEN EdgeWeight(One, now) ELSE adj[p]]

\* the par-value links of vertex_inserted; now is the clock reading
AddEdgeWeightForCurrency(adj, vertex_inserted, vs, now) ==
    LET vertices_for_currency ==
            {v \in vs : v[2] = vertex_inserted[2] /\ v # vertex_inserted}
        out == IF HasRow(adj, vertex_inserted)
               THEN {<<vertex_inserted, v>> : v \in vertices_for_currency}
               ELSE {}
        in == {<<v, vertex_inserted>> :
                  v \in {u \in vertices_for_currency : HasRow(adj, u)}}
    IN  [p \in DOMAIN adj \cup out \cup in |->
            IF p \in DOMAIN adj THEN adj[p] ELSE EdgeWeight(One, now)]

GetEdgeWeight(adj, from_vertex, to_vertex) ==
    IF <<from_vertex, to_vertex>> \in DOMAIN adj
    THEN adj[<<from_vertex, to_vertex>>].weight
    ELSE Zero

-----------------------------------------------------------------------------
(* model.rs : the recompute *)

\* add_best_rate: insert or overwrite
AddBestRate(best, from_vertex, to_vertex, weight) ==
    Put(best, <<from_vertex, to_vertex>>, weight)

\* add_next_vertex: insert to_vertex unless the pair has an entry
AddNextVertex(nxt, from_vertex, to_vertex) ==
    IF <<from_vertex, to_vertex>> \in DOMAIN nxt
    THEN nxt
    ELSE Put(nxt, <<from_vertex, to_vertex>>, to_vertex)

\* the first loop of find_best_rates, over all adjacency entries (its writes
\* touch one pair each, so the HashMap order does not show)
InitTables(adj, best, nxt) ==
    [best |-> [p \in DOMAIN best \cup DOMAIN adj |->
                  IF p \in DOMAIN adj THEN adj[p].weight ELSE best[p]],
     next |-> [p \in DOMAIN nxt \cup DOMAIN adj |->
                  IF p \in DOMAIN nxt THEN nxt[p] ELSE p[2]],
     panicked |-> FALSE]

\* the comparison that lets k replace the value of (i, j)
RelaxesReversed(ij_weight, ik_weight, kj_weight) ==
    Less(Mul(ik_weight, kj_weight), ij_weight)

Relaxes(ij_weight, ik_weight, kj_weight) ==
    Less(ij_weight, Mul(ik_weight, kj_weight))

\* update_next_vertex: next[i][j] := next[i][k]; both unwraps can panic
UpdateNextVertex(st, i, j, k) ==
    IF <<i, k>> \in DOMAIN st.next
    THEN [st EXCEPT !.next = Put(st.next, <<i, j>>, st.next[<<i, k>>])]
    ELSE [st EXCEPT !.panicked = TRUE]

\* the body of the triple loop for one (i, j, k)
RelaxStep(adj, st, i, j, k) ==
    IF i # j /\ i # k /\ k # j
    THEN LET ij_weight == GetEdgeWeight(adj, i, j)
             ik_weight == GetEdgeWeight(adj, i, k)
             kj_weight == GetEdgeWeight(adj, k, j)
         IN  IF Relaxes(ij_weight, ik_weight, kj_weight)
             THEN UpdateNextVertex(
                      [st EXCEPT !.best = AddBestRate(st.best, i, j,
                                              Mul(ik_weight, kj_weight))],
                      i, j, k)
             ELSE st
    ELSE st

\* the three nested loops, each from a position of order on; order is the
\* iteration order of the vertex HashSet.  A panic ends them.
RECURSIVE ForK(_, _, _, _, _, _)
ForK(adj, st, order, i, j, c) ==
    IF c > Len(order) \/ st.panicked THEN st
    ELSE ForK(adj, RelaxStep(adj, st, i, j, order[c]), order, i, j, c + 1)

RECURSIVE ForJ(_, _, _, _, _)
ForJ(adj, st, order, i, b) ==
    IF b > Len(order) \/ st.panicked THEN st
    ELSE ForJ(adj, ForK(adj, st, order, i, order[b], 1), order, i, b + 1)

RECURSIVE ForI(_, _, _, _)
ForI(adj, st, order, a) ==
    IF a > Len(order) \/ st.panicked THEN st
    ELSE ForI(adj, ForJ(adj, st, order, order[a], 1), order, a + 1)

FindBestRates(adj, best, nxt, order) ==
    ForI(adj, InitTables(adj, best, nxt), order, 1)

\* the iteration orders a HashSet of the vertices vs can have
RECURSIVE Orders(_)
Orders(vs) ==
    IF vs = {} THEN {<<>>}
    ELSE UNION {{<<v>> \o o : o \in Orders(vs \ {v})} : v \in vs}

-----------------------------------------------------------------------------
(* model.rs : answering a request *)

\* the loop of best_rate_path from vertex cur, having pushed path.  A walk of
\* more vertices than there are has come back to a vertex it left, and the
\* loop, having no memory, then never ends.
RECURSIVE Walk(_, _, _, _)
Walk(nxt, cur, to_vertex, path) ==
    IF cur = to_vertex THEN [kind |-> "Some", path |-> path]
    ELSE IF Len(path) > Cardinality(Universe) THEN [kind |-> "loops", path |-> path]
    ELSE IF <<cur, to_vertex>> \notin DOMAIN nxt THEN [kind |-> "panics", path |-> path]
    ELSE Walk(nxt, nxt[<<cur, to_vertex>>], to_vertex,
              Append(path, nxt[<<cur, to_vertex>>]))

BestRatePath(nxt, from_vertex, to_vertex) ==
    IF <<from_vertex, to_vertex>> \notin DOMAIN nxt
    THEN [kind |-> "None", path |-> <<>>]
    ELSE Walk(nxt, from_vertex, to_vertex, <<from_vertex>>)

NoRate == <<0, 0>>
NoReport == [status |-> "running", rate |-> NoRate, path |-> <<>>]

\* handle_exchange_rate_request on the tables st that find_best_rates left:
\* how the process goes on, and the rate and path lines printed
Answer(st, from_vertex, to_vertex) ==
    LET found == BestRatePath(st.next, from_vertex, to_vertex)
    IN  IF st.panicked
        THEN [status |-> "panic in update_next_vertex", rate |-> NoRate, path |-> <<>>]
        ELSE IF <<from_vertex, to_vertex>> \notin DOMAIN st.best
        THEN [status |-> "panic in get_best_rate", rate |-> NoRate, path |-> <<>>]
        ELSE IF found.kind = "panics"
        THEN [status |-> "panic in best_rate_path",
              rate |-> st.best[<<from_vertex, to_vertex>>], path |-> <<>>]
        ELSE IF found.kind = "loops"
        THEN [status |-> "best_rate_path never returns",
              rate |-> st.best[<<from_vertex, to_vertex>>], path |-> <<>>]
        ELSE [status |-> "running",
              rate |-> st.best[<<from_vertex, to_vertex>>], path |-> found.path]

-----------------------------------------------------------------------------
(* The main loop *)

Init ==
    /\ feed \in Feeds
    /\ vertices = {}
    /\ adj_matrix = EmptyTable
    /\ best_rate = EmptyTable
    /\ next = EmptyTable
    /\ line = [tokens |-> 0]
    /\ input = [kind |-> "none"]
    /\ report = NoReport
    /\ fresh_report = NoReport
    /\ status = "running"
    /\ quoted = {}
    /\ n_quotes = 0
    /\ n_requests = 0

\* handle_price_update storing the two ratios of a quote the wrong way round
PriceUpdateResultSwapped(adj, vs, l, now) ==
    LET from_vertex == <<l.exchange, l.source_currency>>
        to_vertex == <<l.exchange, l.dest_currency>>
        adj1 == AddEdgeWeight(adj, from_vertex, to_vertex,
                              l.backward_ratio, l.datetime)
        adj2 == AddEdgeWeight(adj1, to_vertex, from_vertex,
                              l.forward_ratio, l.datetime)
        vs2 == AddVertex(AddVertex(vs, from_vertex), to_vertex)
        adj3 == AddEdgeWeightForCurrency(adj2, from_vertex, vs2, now)
        adj4 == AddEdgeWeightForCurrency(adj3, to_vertex, vs2, now)
    IN  [adj_matrix |-> adj4, vertices |-> vs2]

\* handle_price_update
PriceUpdateResult(adj, vs, l, now) ==
    LET from_vertex == <<l.exchange, l.source_currency>>
        to_vertex == <<l.exchange, l.dest_currency>>
        adj1 == AddEdgeWeight(adj, from_vertex, to_vertex,
                              l.forward_ratio, l.datetime)
        adj2 == AddEdgeWeight(adj1, to_vertex, from_vertex,
                              l.backward_ratio, l.datetime)
        vs2 == AddVertex(AddVertex(vs, from_vertex), to_vertex)
        adj3 == AddEdgeWeightForCurrency(adj2, from_vertex, vs2, now)
        adj4 == AddEdgeWeightForCurrency(adj3, to_vertex, vs2, now)
    IN  [adj_matrix |-> adj4, vertices |-> vs2]

HandlePriceUpdate(l, now) ==
    /\ status = "running"
    /\ n_quotes < MaxQuotes
    /\ ParseInput(l).kind = "PriceUpdate"
    /\ LET r == PriceUpdateResult(adj_matrix, vertices, l, now)
       IN  /\ adj_matrix' = r.adj_matrix
           /\ vertices' = r.vertices
    /\ line' = l
    /\ input' = ParseInput(l)
    /\ quoted' = quoted \cup {l}
    /\ n_quotes' = n_quotes + 1
    /\ UNCHANGED <<feed, best_rate, next, report, fresh_report, status, n_requests>>

\* handle_exchange_rate_request; st is what find_best_rates leaves when the
\* vertex set iterates in some order, and fresh what it leaves from empty tables
HandleExchangeRateRequest(l, st, fresh) ==
    /\ status = "running"
    /\ n_requests < MaxRequests
    /\ ParseInput(l).kind = "ExchangeRateRequest"
    /\ LET from_vertex == <<l.source_exchange, l.source_currency>>
           to_vertex == <<l.dest_exchange, l.dest_currency>>
           answer == Answer(st, from_vertex, to_vertex)
       IN  /\ best_rate' = st.best
           /\ next' = st.next
           /\ report' = answer
           /\ status' = answer.status
           /\ fresh_report' = Answer(fresh, from_vertex, to_vertex)
    /\ line' = l
    /\ input' = ParseInput(l)
    /\ n_requests' = n_requests + 1
    /\ UNCHANGED <<feed, vertices, adj_matrix, quoted, n_quotes>>

\* the Invalid arm of the main loop: continue
SkipInvalid(l) ==
    /\ status = "running"
    /\ ParseInput(l).kind = "Invalid"
    /\ line' = l
    /\ input' = ParseInput(l)
    /\ UNCHANGED <<feed, vertices, adj_matrix, best_rate, next, report, fresh_report,
                   status, quoted, n_quotes, n_requests>>

Next ==
    \/ \E l \in feed, now \in Clock : HandlePriceUpdate(l, now)
    \/ \E order \in Orders(vertices) :
           LET st == FindBestRates(adj_matrix, best_rate, next, order)
               fresh == IF best_rate = EmptyTable /\ next = EmptyTable THEN st
                        ELSE FindBestRates(adj_matrix, EmptyTable, EmptyTable, order)
           IN  \E l \in RequestLines : HandleExchangeRateRequest(l, st, fresh)
    \/ \E l \in feed : SkipInvalid(l)

Spec == Init /\ [][Next]_vars

-----------------------------------------------------------------------------
(* Notions the properties are stated in *)

Requested == input.kind = "ExchangeRateRequest"

\* the recompute of the last request ran to its end
Recomputed == Requested /\ status # "panic in update_next_vertex"

RequestFrom == <<line.source_exchange, line.source_currency>>
RequestTo == <<line.dest_exchange, line.dest_currency>>

\* the products of the adjacency weights along the simple paths from i to j
\* that avoid the vertices of seen
RECURSIVE PathProducts(_, _, _)
PathProducts(i, j, seen) ==
    IF i = j THEN {One}
    ELSE UNION { {Mul(adj_matrix[<<i, k>>].weight, r) :
                     r \in PathProducts(k, j, seen \cup {k})} :
                 k \in {v \in vertices \ seen : <<i, v>> \in DOMAIN adj_matrix} }

Maximum(rates) == CHOOSE m \in rates : \A r \in rates : Leq(r, m)

\* the product of the adjacency weights along path, from its at-th vertex on
RECURSIVE ProductAlong(_, _)
ProductAlong(path, at) ==
    IF at >= Len(path) THEN One
    ELSE Mul(adj_matrix[<<path[at], path[at + 1]>>].weight,
             ProductAlong(path, at + 1))

\* the ratio check of the specification, on the line itself
RatioOutOfRange(l) ==
    LET product == Mul(l.forward_ratio, l.backward_ratio)
    IN  Leq(product, Zero) \/ Less(One, product)

-----------------------------------------------------------------------------
(* Properties *)

\* C1: last-write-wins per directed edge.  A step changes a stored edge only
\* to a strictly greater last_updated, and a price update whose edge exists
\* replaces weight and last_updated exactly when its timestamp is strictly
\* greater than the stored one, and leaves both as they were otherwise.
LastWriteWins ==
    [][ /\ \A p \in DOMAIN adj_matrix :
              adj_matrix'[p] # adj_matrix[p]
                  => adj_matrix'[p].last_updated > adj_matrix[p].last_updated
        /\ input'.kind = "PriceUpdate" /\ n_quotes' = n_quotes + 1
              => LET l == input'.price_update
                     fwd == <<(<<l.exchange, l.source_currency>>),
                              (<<l.exchange, l.dest_currency>>)>>
                     bwd == <<fwd[2], fwd[1]>>
                 IN  /\ fwd \in DOMAIN adj_matrix
                        => adj_matrix'[fwd] =
                             IF l.datetime > adj_matrix[fwd].last_updated
                             THEN EdgeWeight(l.forward_ratio, l.datetime)
                             ELSE adj_matrix[fwd]
                     /\ bwd \in DOMAIN adj_matrix /\ bwd # fwd
                        => adj_matrix'[bwd] =
                             IF l.datetime > adj_matrix[bwd].last_updated
                             THEN EdgeWeight(l.backward_ratio, l.datetime)
                             ELSE adj_matrix[bwd] ]_vars

\* a price update older than the stored edge was handled, and the edge keeps
\* the newer weight
StaleUpdateDiscarded ==
    /\ input.kind = "PriceUpdate"
    /\ LET fwd == <<(<<line.exchange, line.source_currency>>),
                    (<<line.exchange, line.dest_currency>>)>>
       IN  /\ line.datetime < adj_matrix[fwd].last_updated
           /\ adj_matrix[fwd].weight # line.forward_ratio

\* C2: after a request's recompute, best_rate of every ordered pair of
\* distinct connected vertices is the maximum product over all simple paths.
BestRateIsMaximumProduct ==
    Recomputed =>
        \A i \in vertices, j \in vertices :
            i # j /\ PathProducts(i, j, {i}) # {}
                => /\ <<i, j>> \in DOMAIN best_rate
                   /\ best_rate[<<i, j>>] = Maximum(PathProducts(i, j, {i}))

\* C3: following next from any pair that has a next entry never revisits a
\* vertex.
PathReconstructionTerminates ==
    \A p \in DOMAIN next : BestRatePath(next, p[1], p[2]).kind # "loops"

\* C4: at a request, every pair with a best_rate has a path from its source
\* to its destination along adjacency edges whose weights multiply to it.
PathValidity ==
    Recomputed =>
        \A p \in DOMAIN best_rate :
            LET found == BestRatePath(next, p[1], p[2])
                path == found.path
            IN  /\ found.kind = "Some"
                /\ path[1] = p[1]
                /\ path[Len(path)] = p[2]
                /\ \A at \in 1..(Len(path) - 1) :
                       <<path[at], path[at + 1]>> \in DOMAIN adj_matrix
                /\ ProductAlong(path, 1) = best_rate[p]

\* C5: a request for a pair without a best_rate entry does not end the run.
RequestWithoutRateGoesOn ==
    Requested /\ <<RequestFrom, RequestTo>> \notin DOMAIN best_rate
        => status = "running"

\* C6: what a request reports is what it reports when no request ran before.
StatelessRecompute ==
    Requested => report = fresh_report

\* C7: with USD->JPY at 100 on EXCH1, at 105 on EXCH2 and the par links
\* between the exchanges, a request EXCH1 USD -> EXCH1 JPY reports 105.
TwoExchangeScenario ==
    /\ Requested
    /\ line = RequestLine(E1USD, E1JPY)
    /\ vertices = {E1USD, E1JPY, E2USD, E2JPY}
    /\ adj_matrix[<<E1USD, E1JPY>>].weight = Rat(100, 1)
    /\ adj_matrix[<<E2USD, E2JPY>>].weight = Rat(105, 1)
    /\ \A p \in {<<E1USD, E2USD>>, <<E2USD, E1USD>>, <<E1JPY, E2JPY>>, <<E2JPY, E1JPY>>} :
           p \in DOMAIN adj_matrix /\ adj_matrix[p].weight = One
    => /\ status = "running"
       /\ report.rate = Rat(105, 1)

\* C8: right after a recompute, best_rate of every pair with a direct edge
\* is at least the weight of the edge.
BestRateMonotonicity ==
    Requested =>
        \A p \in DOMAIN adj_matrix :
            p \in DOMAIN best_rate /\ Leq(adj_matrix[p].weight, best_rate[p])

\* a recompute found a product of two edges above the weight of a direct edge
DirectEdgeImproved ==
    /\ Recomputed
    /\ \E p \in DOMAIN adj_matrix : Less(adj_matrix[p].weight, best_rate[p])

\* C9: a price update line whose ratios multiply to more than 1 or to at most
\* 0 is classified invalid and leaves vertices and the three tables as they
\* were.
InvalidRatioRejected ==
    [][ line'.tokens = 6 /\ RatioOutOfRange(line')
            => /\ input'.kind = "Invalid"
               /\ UNCHANGED <<vertices, adj_matrix, best_rate, next>> ]_vars

\* a line was rejected for its ratios when the graph and the tables held entries
RejectedOnPopulatedGraph ==
    /\ input.kind = "Invalid"
    /\ line.tokens = 6 /\ RatioOutOfRange(line)
    /\ DOMAIN adj_matrix # {}
    /\ DOMAIN best_rate # {}

\* C10: every weight stored in the adjacency table is strictly positive.
StoredWeightsPositive ==
    \A p \in DOMAIN adj_matrix : Less(Zero, adj_matrix[p].weight)

\* the step handles a price update
QuoteStep == n_quotes' # n_quotes

QuoteFrom(l) == <<l.exchange, l.source_currency>>
QuoteTo(l) == <<l.exchange, l.dest_currency>>

\* the two directed pairs a quote prices
QuotePairs(l) == {<<QuoteFrom(l), QuoteTo(l)>>, <<QuoteTo(l), QuoteFrom(l)>>}

\* a pair of distinct vertices of one currency
SameCurrencyPair(p) == p[1] # p[2] /\ p[1][2] = p[2][2]

\* C11: handling a price update leaves every adjacency entry between two
\* vertices of one currency as it was, weight and last_updated, and the
\* entries it adds beside the pair it prices are links of weight 1 between a
\* vertex the quote names and another vertex of the same currency
SyntheticLinkNonOverride ==
    [][QuoteStep =>
         /\ \A p \in DOMAIN adj_matrix :
                SameCurrencyPair(p) =>
                    /\ p \in DOMAIN adj_matrix'
                    /\ adj_matrix'[p] = adj_matrix[p]
         /\ \A p \in (DOMAIN adj_matrix' \ DOMAIN adj_matrix) \ QuotePairs(line') :
                /\ SameCurrencyPair(p)
                /\ adj_matrix'[p].weight = One
                /\ {p[1], p[2]} \cap {QuoteFrom(line'), QuoteTo(line')} # {}]_vars

\* C11 witness: the third quote names two vertices the second one linked
LinkedVertexRequoted ==
    /\ input.kind = "PriceUpdate"
    /\ n_quotes = 3
    /\ Cardinality(quoted) = 3
    /\ \E l \in quoted : l.exchange # line.exchange
    /\ \E l \in quoted \ {line} : l.exchange = line.exchange
    /\ \E p \in DOMAIN adj_matrix :
           SameCurrencyPair(p) /\ p[1] = QuoteFrom(line)

\* the vertices the handled price updates name
NamedVertices == UNION {{QuoteFrom(l), QuoteTo(l)} : l \in quoted}

\* C12: after any sequence of accepted quotes the vertex set holds each
\* (exchange, currency) pair the quotes name once, so the number of vertices
\* is the number of distinct pairs named
IdempotentVertexInsertion ==
    /\ vertices = NamedVertices
    /\ Cardinality(vertices) = Cardinality(NamedVertices)

\* C12 witness: three quotes that name the same two vertices
VertexNamedAgain ==
    /\ input.kind = "PriceUpdate"
    /\ n_quotes = 3
    /\ Cardinality(vertices) = 2
    /\ \A l \in quoted : QuoteFrom(l) # QuoteTo(l)

\* the two quotes of the single-exchange scenario
UsdJpyQuote == QuoteLine(1, "EXCH1", "USD", "JPY", Rat(100, 1), Rat(19, 2000))
JpyUsdQuote == QuoteLine(1, "EXCH1", "JPY", "USD", Rat(19, 2000), Rat(100, 1))

\* C13: from the empty graph, once the quotes 'EXCH1 USD JPY 100.0 0.0095'
\* and 'EXCH1 JPY USD 0.0095 100.0' are the two quotes handled, the vertex set
\* is {(EXCH1,USD), (EXCH1,JPY)} and the edge (EXCH1,USD)->(EXCH1,JPY) weighs
\* 100, and a request EXCH1 USD -> EXCH1 JPY answered then reports the rate
\* 100 with the path [(EXCH1,USD), (EXCH1,JPY)]
SingleExchangeScenario ==
    quoted = {UsdJpyQuote, JpyUsdQuote} /\ n_quotes = 2
    => /\ vertices = {E1USD, E1JPY}
       /\ adj_matrix[<<E1USD, E1JPY>>].weight = Rat(100, 1)
       /\ Requested /\ line = RequestLine(E1USD, E1JPY)
          => /\ status = "running"
             /\ report.rate = Rat(100, 1)
             /\ report.path = <<E1USD, E1JPY>>

\* C13 witness: the request of the scenario answered after its two quotes
SingleExchangeAnswered ==
    /\ quoted = {UsdJpyQuote, JpyUsdQuote}
    /\ n_quotes = 2
    /\ n_requests = 1
    /\ Requested
    /\ line = RequestLine(E1USD, E1JPY)

\* C14: the recompute of a request never stops in update_next_vertex on a
\* missing next[i][k]: whenever the relaxation test passes for (i, j, k) the
\* entry is there, whatever lines parse_input accepted before
RecomputeRunsToCompletion ==
    Requested => status # "panic in update_next_vertex"

\* C15: after a recompute, for every three pairwise distinct vertices i, j, k,
\* best_rate[i][j] is at least adjacency(i,k) * adjacency(k,j), a missing edge
\* or rate counting as 0, whatever order the vertex set was iterated in
RelaxationKeepsRunningBest ==
    Recomputed =>
        \A i \in vertices, j \in vertices, k \in vertices :
            i # j /\ i # k /\ k # j =>
                Leq(Mul(GetEdgeWeight(adj_matrix, i, k), GetEdgeWeight(adj_matrix, k, j)),
                    IF <<i, j>> \in DOMAIN best_rate THEN best_rate[<<i, j>>] ELSE Zero)

\* C16: after every price update handled, any two distinct vertices of the
\* vertex set that share a currency have an adjacency entry in both directions
SyntheticLinkCompleteness ==
    \A u \in vertices, v \in vertices :
        SameCurrencyPair(<<u, v>>) =>
            <<u, v>> \in DOMAIN adj_matrix /\ <<v, u>> \in DOMAIN adj_matrix

\* C16 witness: a price update just handled that names a currency another
\* exchange quotes too
CurrencySharedAcrossExchanges ==
    /\ input.kind = "PriceUpdate"
    /\ \E v \in vertices : SameCurrencyPair(<<QuoteFrom(line), v>>)

\* the handled price updates that price the directed pair p
QuotesOn(p) == {l \in quoted : p \in QuotePairs(l)}

\* the rate l carries for the directed pair p
RateFor(l, p) ==
    IF p = <<QuoteFrom(l), QuoteTo(l)>> THEN l.forward_ratio ELSE l.backward_ratio

\* the price update of qs with the greatest timestamp
Newest(qs) == CHOOSE l \in qs : \A m \in qs : m.datetime <= l.datetime

\* C17: when the quotes handled for a directed pair of distinct vertices
\* carry pairwise different timestamps, the stored weight of the pair is the
\* rate of the quote with the greatest timestamp, and last_updated its
\* timestamp, in whatever order the quotes came
NewestQuoteWinsInAnyOrder ==
    \A p \in DOMAIN adj_matrix :
        /\ p[1] # p[2]
        /\ QuotesOn(p) # {}
        /\ \A l \in QuotesOn(p), m \in QuotesOn(p) : l # m => l.datetime # m.datetime
        => /\ adj_matrix[p].weight = RateFor(Newest(QuotesOn(p)), p)
           /\ adj_matrix[p].last_updated = Newest(QuotesOn(p)).datetime

\* C17 witness: the quote just handled is older than one handled before it
\* for the same pair, at another rate, and no two timestamps are equal
OlderQuoteArrivedLast ==
    /\ input.kind = "PriceUpdate"
    /\ QuoteFrom(line) # QuoteTo(line)
    /\ LET p == <<QuoteFrom(line), QuoteTo(line)>>
       IN  /\ \A l \in QuotesOn(p), m \in QuotesOn(p) : l # m => l.datetime # m.datetime
           /\ \E l \in QuotesOn(p) :
                  l.datetime > line.datetime /\ RateFor(l, p) # RateFor(line, p)

\* a pair of distinct vertices of one exchange
SameExchangePair(p) == p[1] # p[2] /\ p[1][1] = p[2][1]

EdgeClassification ==
    \A p \in DOMAIN adj_matrix :
        p[1] # p[2] =>
            \/ SameExchangePair(p)
            \/ /\ SameCurrencyPair(p)
               /\ p[1][1] # p[2][1]
               /\ adj_matrix[p].weight = One

\* C19 witness: entries of both classes after quotes on two exchanges, the
\* priced ones at rates other than 1
BothClassesOfEntries ==
    /\ \E l \in quoted, m \in quoted : l.exchange # m.exchange
    /\ \E p \in DOMAIN adj_matrix : p[1][1] # p[2][1]
    /\ \A p \in DOMAIN adj_matrix :
           SameExchangePair(p) => adj_matrix[p].weight # One

\* C20: in every reachable state no vertex has an adjacency entry to itself,
\* and best_rate and next hold no entry for a pair (v, v), also after a quote
\* whose source and destination currency are the same
NoSelfRate ==
    \A p \in DOMAIN adj_matrix \cup DOMAIN best_rate \cup DOMAIN next : p[1] # p[2]

====
